---- MODULE Spec2Model ----
(***************************************************************************)
(* houndigrade: the inspection coordinator of cli.py.                      *)
(*                                                                         *)
(* main() walks the list of (image_id, drive) targets; mount_and_inspect   *)
(* discovers the partitions of a drive; check_partition records a          *)
(* partition, opens the mount() session, runs the detectors, merges their  *)
(* findings into the image result and closes the session.  The external    *)
(* commands (mount, umount, blkid, the LVM tools, udevadm, the rpm query)  *)
(* and the content of the inspected volumes are the environment: every     *)
(* outcome they can have is a nondeterministic choice of the action that   *)
(* issues the command.                                                     *)
(***************************************************************************)
EXTENDS Integers, Sequences, FiniteSets, TLC

(***************************************************************************)
(* Bounds of the model.                                                    *)
(***************************************************************************)
\* longest target list given on the command line
MaxTargets == 2
\* most device nodes get_partitions finds for one drive
MaxParts == 2
\* most mount commands issued in one run (caps the partitions discovered)
MaxMounts == 2

(***************************************************************************)
(* Input universes.                                                        *)
(***************************************************************************)
Images == {"ami-1", "ami-2"}
Drives == {"/dev/sda", "/dev/sdb"}
\* the logical volumes lvdisplay lists (system wide, whatever the drive)
LvPaths == <<"/dev/vg0/root">>

\* the targets a command line is made of: two drives of one image and a drive
\* of another image; the names are arbitrary, so the first target is fixed
Targets == {<<"ami-1", "/dev/sda">>, <<"ami-1", "/dev/sdb">>, <<"ami-2", "/dev/sdb">>}
FirstTarget == <<"ami-1", "/dev/sda">>

\* Python's None, and a key that is not in a dict
None == "None"
Absent == "<absent>"

\* cli.py:22, and the deployment root check_for_ostree resolves
DefaultInspectPath == "/mnt/inspect"
OstreePath == "/mnt/inspect/ostree/deploy/os/deploy/0"

(***************************************************************************)
(* What a mounted volume can hold, as far as the detectors look at it.     *)
(*   release    : kind of etc/*-release file ("none", "centos", "rhel")    *)
(*   certs      : a product certificate of the allow-list is present       *)
(*   repos      : an enabled repo with a RHEL brand token is configured    *)
(*   rpm        : what the package query does: "nodata" (var/lib/rpm is    *)
(*                empty), a count ("0", "3"), "fail" (CalledProcessError)  *)
(*                or "garbled" (output that int() cannot convert)          *)
(*   os_version : VERSION_ID of etc/os-release, None if missing or empty   *)
(*   syspurpose : text of syspurpose.json, None if missing/empty/oversized *)
(***************************************************************************)
SyspurposeTexts == {"{}", "{\"role\": \"a\"}", "{\"role\": \"b\"}", "not json", "   "}

Volume(release, certs, repos, rpm, os_version, syspurpose) ==
    [release |-> release, certs |-> certs, repos |-> repos, rpm |-> rpm,
     os_version |-> os_version, syspurpose |-> syspurpose]

Volumes ==
    { Volume("rhel",   FALSE, FALSE, "nodata",  "7.4", "{\"role\": \"a\"}"),
      Volume("rhel",   FALSE, FALSE, "fail",    None,  None),
      Volume("rhel",   FALSE, FALSE, "0",       "8.1", "{}"),
      Volume("centos", FALSE, FALSE, "0",       "8.1", "{\"role\": \"b\"}"),
      Volume("none",   TRUE,  FALSE, "nodata",  "8.1", "{\"role\": \"b\"}"),
      Volume("centos", FALSE, TRUE,  "0",       "7.4", "   "),
      Volume("none",   FALSE, FALSE, "3",       None,  "not json"),
      Volume("rhel",   TRUE,  FALSE, "garbled", "8.1", "{\"role\": \"a\"}") }

VARIABLES
    targets,        \* main: the (image_id, drive) pairs of --target
    results,        \* main: the RunResult handed to report_results
    pc,             \* where the run is
    ti,             \* main: index of the target of the for loop
    partitions,     \* mount_and_inspect: the partitions of the current drive
    pi,             \* mount_and_inspect: index of the partition of the for loop
    INSPECT_PATH,   \* the module global
    session,        \* mount(): its locals default_inspect_path, ostree_path
    mounted,        \* number of file systems mounted on the mount path
    calls,          \* how often each external command has been issued
    handoffs,       \* how often report_results has been called
    call,           \* a function run on its own: its name and what it reads
    ret             \* what the calls of that function returned, in order

vars == <<targets, results, pc, ti, partitions, pi, INSPECT_PATH, session,
          mounted, calls, handoffs, call, ret>>

Commands == {"get_partitions", "udevadm", "lvdisplay", "mount", "mount_ok",
             "umount", "detectors"}

Called(cmds) == [c \in Commands |-> IF c \in cmds THEN calls[c] + 1 ELSE calls[c]]

EmptyMap == <<>>

NoSession == [default_inspect_path |-> None, ostree_path |-> None]

\* main runs the whole coordinator, no function on its own
NoCall == [fn |-> "main"]

(***************************************************************************)
(* The result tree.                                                        *)
(***************************************************************************)
\* mount_and_inspect: the entry of an image seen for the first time
NewImage ==
    [rhel_found |-> FALSE,
     rhel_signed_packages_found |-> FALSE,
     rhel_product_certs_found |-> FALSE,
     rhel_release_files_found |-> FALSE,
     rhel_enabled_repos_found |-> FALSE,
     rhel_version |-> None,
     syspurpose |-> None,
     drives |-> EmptyMap,
     errors |-> <<>>]

\* a detector's sub-record: {} until the detector has written to it
EmptyDict == [filled |-> FALSE, rhel_found |-> FALSE]

Filled(found) == [filled |-> TRUE, rhel_found |-> found]

\* check_partition: the record stored before the mount is issued
NewPartitionResult ==
    [facts |-> [rhel_release_files |-> EmptyDict,
                rhel_product_certs |-> EmptyDict,
                rhel_signed_packages |-> EmptyDict,
                rhel_enabled_repos |-> EmptyDict,
                os_version |-> Absent,
                syspurpose_contents |-> Absent],
     error |-> Absent]

\* mount_and_inspect: make sure the image and its drive have an entry
EnsureEntries(res, image_id, drive) ==
    LET images1 == IF image_id \in DOMAIN res.images
                   THEN res.images
                   ELSE (image_id :> NewImage) @@ res.images
        drives0 == images1[image_id].drives
        drives1 == IF drive \in DOMAIN drives0
                   THEN drives0
                   ELSE (drive :> EmptyMap) @@ drives0
    IN  [res EXCEPT !.images = [images1 EXCEPT ![image_id].drives = drives1]]

\* image_results["drives"][drive][partition] = partition_result
StorePartition(res, image_id, drive, partition, rec) ==
    [res EXCEPT !.images[image_id].drives[drive] = (partition :> rec) @@ @]

\* lines 162-163 without the append to the image's errors
AppendError_RunResultOnly(res, image_id, message) ==
    [res EXCEPT !.errors = Append(@, message)]

\* lines 162-163 without the append to the run's errors
AppendError_ImageOnly(res, image_id, message) ==
    [res EXCEPT !.images[image_id].errors = Append(@, message)]

\* both error lists get the message
AppendError(res, image_id, message) ==
    [res EXCEPT !.errors = Append(@, message),
                !.images[image_id].errors = Append(@, message)]

image_id == targets[ti][1]
drive == targets[ti][2]
partition == partitions[pi]

Init ==
    /\ targets \in UNION { [1..n -> Targets] : n \in 1..MaxTargets }
    /\ targets[1] = FirstTarget
    /\ results = [cloud |-> "aws", images |-> EmptyMap, errors |-> <<>>]
    /\ pc = "main"
    /\ ti = 1
    /\ partitions = <<>>
    /\ pi = 0
    /\ INSPECT_PATH = DefaultInspectPath
    /\ session = NoSession
    /\ mounted = 0
    /\ calls = [c \in Commands |-> 0]
    /\ handoffs = 0
    /\ call = NoCall
    /\ ret = <<>>

(***************************************************************************)
(* The detectors, as functions of the mounted volume.                      *)
(***************************************************************************)
\* check_release_files: found iff a release file contains "Red Hat"
check_release_files(volume) == Filled(volume.release = "rhel")

\* check_for_rhel_certs
check_for_rhel_certs(volume) == Filled(volume.certs)

\* check_enabled_repos
check_enabled_repos(volume) == Filled(volume.repos)

\* int(rpm_result.strip())
SignedRpmCount(rpm) == CASE rpm = "3" -> 3 [] OTHER -> 0

\* check_for_signed_packages raises ValueError when int() cannot convert
SignedPackagesRaises(volume) == volume.rpm = "garbled"

\* check_for_signed_packages: found iff the count is not zero
check_for_signed_packages(volume) == Filled(SignedRpmCount(volume.rpm) # 0)

\* get_os_version
get_os_version(volume) == volume.os_version

\* get_syspurpose
get_syspurpose(volume) == volume.syspurpose

\* str.strip
Strip(text) == IF text = "   " THEN "" ELSE text

JSONDecodeError == "JSONDecodeError"

\* json.loads: the parsed document, or the error it raises
JsonLoads(text) ==
    CASE text = "{}" -> "dict()"
      [] text = "{\"role\": \"a\"}" -> "dict(role=a)"
      [] text = "{\"role\": \"b\"}" -> "dict(role=b)"
      [] OTHER -> JSONDecodeError

\* parse_syspurpose: None for empty text and for text that does not parse
parse_syspurpose(syspurpose) ==
    IF syspurpose # None /\ Strip(syspurpose) # ""
    THEN IF JsonLoads(syspurpose) = JSONDecodeError
         THEN None
         ELSE JsonLoads(syspurpose)
    ELSE None

\* Python truth value of a parsed document
Truthy(value) == value \notin {None, "", "dict()"}

(***************************************************************************)
(* check_partition, lines 221-260: the facts the detectors leave in the    *)
(* partition record and the merge into the image result.                   *)
(***************************************************************************)
InspectedFacts(volume) ==
    [rhel_release_files |-> check_release_files(volume),
     rhel_product_certs |-> check_for_rhel_certs(volume),
     rhel_signed_packages |-> check_for_signed_packages(volume),
     rhel_enabled_repos |-> check_enabled_repos(volume),
     os_version |-> get_os_version(volume),
     syspurpose_contents |-> get_syspurpose(volume)]

\* the facts when check_for_signed_packages raised
InterruptedFacts(volume) ==
    [NewPartitionResult.facts EXCEPT
        !.rhel_release_files = check_release_files(volume),
        !.rhel_product_certs = check_for_rhel_certs(volume),
        !.rhel_enabled_repos = check_enabled_repos(volume)]

\* lines 232-237 with the signed packages left out of the disjunction
PartitionRhelFound_NoSignedPackages(facts) ==
    \/ facts.rhel_release_files.rhel_found
    \/ facts.rhel_product_certs.rhel_found
    \/ facts.rhel_enabled_repos.rhel_found

\* lines 232-237
PartitionRhelFound(facts) ==
    \/ facts.rhel_release_files.rhel_found
    \/ facts.rhel_product_certs.rhel_found
    \/ facts.rhel_enabled_repos.rhel_found
    \/ facts.rhel_signed_packages.rhel_found

\* lines 239-245 with rhel_found in place of the release-file flag
MergeVersion_AnyHeuristic(image, facts) ==
    IF PartitionRhelFound(facts) /\ facts.os_version \notin {None, ""}
    THEN facts.os_version
    ELSE image.rhel_version

\* lines 239-245
MergeVersion(image, facts) ==
    IF facts.rhel_release_files.rhel_found /\ facts.os_version \notin {None, ""}
    THEN facts.os_version
    ELSE image.rhel_version

\* lines 247-252 with "is not None" in place of the truth test of line 249
MergeSyspurpose_AnyParsed(image, facts) ==
    IF /\ PartitionRhelFound(facts)
       /\ facts.syspurpose_contents \notin {None, ""}
       /\ parse_syspurpose(facts.syspurpose_contents) # None
    THEN parse_syspurpose(facts.syspurpose_contents)
    ELSE image.syspurpose

\* lines 247-252
MergeSyspurpose(image, facts) ==
    IF /\ PartitionRhelFound(facts)
       /\ facts.syspurpose_contents \notin {None, ""}
       /\ Truthy(parse_syspurpose(facts.syspurpose_contents))
    THEN parse_syspurpose(facts.syspurpose_contents)
    ELSE image.syspurpose

\* lines 254-260 with "=" in place of "|="
MergeFlags_LastPartitionWins(image, facts) ==
    [image EXCEPT
        !.rhel_found = PartitionRhelFound(facts),
        !.rhel_signed_packages_found = facts.rhel_signed_packages.rhel_found,
        !.rhel_product_certs_found = facts.rhel_product_certs.rhel_found,
        !.rhel_release_files_found = facts.rhel_release_files.rhel_found,
        !.rhel_enabled_repos_found = facts.rhel_enabled_repos.rhel_found]

\* lines 254-260
MergeFlags(image, facts) ==
    [image EXCEPT
        !.rhel_found = @ \/ PartitionRhelFound(facts),
        !.rhel_signed_packages_found = @ \/ facts.rhel_signed_packages.rhel_found,
        !.rhel_product_certs_found = @ \/ facts.rhel_product_certs.rhel_found,
        !.rhel_release_files_found = @ \/ facts.rhel_release_files.rhel_found,
        !.rhel_enabled_repos_found = @ \/ facts.rhel_enabled_repos.rhel_found]

MergePartition(image, facts) ==
    [MergeFlags(image, facts) EXCEPT
        !.rhel_version = MergeVersion(image, facts),
        !.syspurpose = MergeSyspurpose(image, facts)]

\* lines 280-299 with the drive's records replaced by the failing one
HandleErrorReturnCode_DropsSiblings(res, img, drv, part, full_cmd) ==
    AppendError([res EXCEPT !.images[img].drives[drv] =
                     (part :> [@[part] EXCEPT !.error = "stderr"])],
                img, <<"Mount failed", part, img, full_cmd>>)

\* check_partition, lines 280-299: the except branch
HandleErrorReturnCode(res, img, drv, part, full_cmd) ==
    AppendError([res EXCEPT !.images[img].drives[drv][part].error = "stderr"],
                img, <<"Mount failed", part, img, full_cmd>>)

(***************************************************************************)
(* The run.                                                                *)
(***************************************************************************)
\* the for loop of lines 178-179 left after the first partition
NextPartition_SkipsDrive ==
    /\ pi' = 0
    /\ partitions' = <<>>
    /\ ti' = ti + 1
    /\ pc' = "main"

\* check_partition returned: next partition of the drive, else next target
NextPartition ==
    IF pi < Len(partitions)
    THEN /\ pi' = pi + 1
         /\ pc' = "check_partition"
         /\ UNCHANGED <<ti, partitions>>
    ELSE /\ pi' = 0
         /\ partitions' = <<>>
         /\ ti' = ti + 1
         /\ pc' = "main"

\* get_partitions: the sorted device nodes of the drive
DeviceNodes(drv, n) == [k \in 1..n |-> drv \o ToString(k)]

\* is_lvm: what it can return; when a drive holds an LVM physical volume it is
\* its last partition
LvmMembers(nodes) ==
    IF nodes = <<>> THEN {{}} ELSE {{}, {nodes[Len(nodes)]}}

\* mount_and_inspect, lines 168-169: drop the LVM members, add the volumes
WithoutLvm(nodes, lvm_partitions) ==
    SelectSeq(nodes, LAMBDA p : p \notin lvm_partitions)

InspectedPartitions(nodes, lvm_partitions) ==
    IF lvm_partitions # {}
    THEN WithoutLvm(nodes, lvm_partitions) \o LvPaths
    ELSE nodes

\* mount_and_inspect, lines 159-164: nothing at the device path
mount_and_inspect_missing ==
    /\ pc = "main"
    /\ ti <= Len(targets)
    /\ results' = AppendError(EnsureEntries(results, image_id, drive), image_id,
                              <<"Nothing found at path", drive, image_id>>)
    /\ ti' = ti + 1
    /\ UNCHANGED <<call, ret>>
    /\ UNCHANGED <<targets, pc, partitions, pi, INSPECT_PATH, session, mounted,
                   calls, handoffs>>

\* mount_and_inspect, lines 166-183: the partitions are discovered
mount_and_inspect_found ==
    /\ pc = "main"
    /\ ti <= Len(targets)
    /\ \E n \in 0..MaxParts :
         \E lvm_partitions \in LvmMembers(DeviceNodes(drive, n)) :
           LET found == InspectedPartitions(DeviceNodes(drive, n), lvm_partitions)
           IN  /\ calls["mount"] + Len(found) <= MaxMounts
               /\ calls' = Called({"get_partitions"}
                                  \cup (IF n > 0 THEN {"udevadm"} ELSE {})
                                  \cup (IF lvm_partitions # {} THEN {"lvdisplay"} ELSE {}))
               /\ IF found # <<>>
                  THEN /\ partitions' = found
                       /\ pi' = 1
                       /\ pc' = "check_partition"
                       /\ ti' = ti
                  ELSE /\ UNCHANGED <<partitions, pi, pc>>
                       /\ ti' = ti + 1
    /\ results' = EnsureEntries(results, image_id, drive)
    /\ UNCHANGED <<call, ret>>
    /\ UNCHANGED <<targets, INSPECT_PATH, session, mounted, handoffs>>

\* mount_and_inspect: a command of get_partitions, is_lvm or fetch_lv_paths
\* exits non-zero; sh.ErrorReturnCode is caught nowhere up to main
mount_and_inspect_raises ==
    /\ pc = "main"
    /\ ti <= Len(targets)
    /\ \E failing \in {"get_partitions", "udevadm", "lvdisplay"} :
         calls' = Called(CASE failing = "get_partitions" -> {"get_partitions"}
                           [] failing = "udevadm" -> {"get_partitions", "udevadm"}
                           [] OTHER -> {"get_partitions", "udevadm", "lvdisplay"})
    /\ results' = EnsureEntries(results, image_id, drive)
    /\ pc' = "crashed"
    /\ UNCHANGED <<call, ret>>
    /\ UNCHANGED <<targets, ti, partitions, pi, INSPECT_PATH, session, mounted,
                   handoffs>>

\* check_partition, lines 199-220, and mount(), lines 327-348: the record is
\* stored, the mount succeeds and the session is open
check_partition_mount ==
    /\ pc = "check_partition"
    /\ \E ostree_path \in {None, OstreePath} :
         /\ session' = [default_inspect_path |-> INSPECT_PATH,
                        ostree_path |-> ostree_path]
         /\ INSPECT_PATH' = IF ostree_path # None THEN ostree_path ELSE INSPECT_PATH
    /\ results' = StorePartition(results, image_id, drive, partition,
                                 NewPartitionResult)
    /\ mounted' = mounted + 1
    /\ calls' = Called({"mount", "mount_ok"})
    /\ pc' = "inspect"
    /\ UNCHANGED <<call, ret>>
    /\ UNCHANGED <<targets, ti, partitions, pi, handoffs>>

\* the failing mount with the record stored only after the mount succeeded
check_partition_mount_fails_NoRecord ==
    /\ pc = "check_partition"
    /\ results' = AppendError(results, image_id,
                              <<"Mount failed", partition, image_id, "mount">>)
    /\ calls' = Called({"mount"})
    /\ NextPartition
    /\ UNCHANGED <<call, ret>>
    /\ UNCHANGED <<targets, INSPECT_PATH, session, mounted, handoffs>>

\* check_partition, lines 199-220 and 280-299: the mount command fails
check_partition_mount_fails ==
    /\ pc = "check_partition"
    /\ results' = HandleErrorReturnCode(
                      StorePartition(results, image_id, drive, partition,
                                     NewPartitionResult),
                      image_id, drive, partition, "mount")
    /\ calls' = Called({"mount"})
    /\ NextPartition
    /\ UNCHANGED <<call, ret>>
    /\ UNCHANGED <<targets, INSPECT_PATH, session, mounted, handoffs>>

\* check_partition, lines 221-278: the detectors and the merge
check_partition_inspect ==
    /\ pc = "inspect"
    /\ \E volume \in Volumes :
         /\ ~SignedPackagesRaises(volume)
         /\ results' =
              [results EXCEPT
                 !.images[image_id] =
                    MergePartition(
                       [@ EXCEPT !.drives[drive][partition].facts = InspectedFacts(volume)],
                       InspectedFacts(volume))]
    /\ calls' = Called({"detectors"})
    /\ pc' = "close"
    /\ UNCHANGED <<call, ret>>
    /\ UNCHANGED <<targets, ti, partitions, pi, INSPECT_PATH, session, mounted,
                   handoffs>>

\* check_partition, lines 221-224: check_for_signed_packages raises ValueError,
\* which leaves mount() at its yield and is caught nowhere up to main
check_partition_inspect_raises ==
    /\ pc = "inspect"
    /\ \E volume \in Volumes :
         /\ SignedPackagesRaises(volume)
         /\ results' = [results EXCEPT
                          !.images[image_id].drives[drive][partition].facts =
                              InterruptedFacts(volume)]
    /\ calls' = Called({"detectors"})
    /\ pc' = "crashed"
    /\ UNCHANGED <<call, ret>>
    /\ UNCHANGED <<targets, ti, partitions, pi, INSPECT_PATH, session, mounted,
                   handoffs>>

\* mount(), lines 349-357: INSPECT_PATH is restored before the umount
RestoredInspectPath ==
    IF session.ostree_path # None
    THEN session.default_inspect_path
    ELSE INSPECT_PATH

\* mount(), lines 349-359: the session is closed
mount_close ==
    /\ pc = "close"
    /\ INSPECT_PATH' = RestoredInspectPath
    /\ session' = NoSession
    /\ mounted' = mounted - 1
    /\ calls' = Called({"umount"})
    /\ NextPartition
    /\ UNCHANGED <<call, ret>>
    /\ UNCHANGED <<targets, results, handoffs>>

\* the failing umount handled as if the partition had never been inspected
mount_close_fails_DiscardsFindings ==
    /\ pc = "close"
    /\ INSPECT_PATH' = RestoredInspectPath
    /\ session' = NoSession
    /\ results' = HandleErrorReturnCode(
                      StorePartition(results, image_id, drive, partition,
                                     NewPartitionResult),
                      image_id, drive, partition, "umount")
    /\ calls' = Called({"umount"})
    /\ NextPartition
    /\ UNCHANGED <<call, ret>>
    /\ UNCHANGED <<targets, mounted, handoffs>>

\* mount(), lines 349-358, and check_partition, lines 280-299: the umount
\* command fails, the file system stays mounted
mount_close_fails ==
    /\ pc = "close"
    /\ INSPECT_PATH' = RestoredInspectPath
    /\ session' = NoSession
    /\ results' = HandleErrorReturnCode(results, image_id, drive, partition,
                                        "umount")
    /\ calls' = Called({"umount"})
    /\ NextPartition
    /\ UNCHANGED <<call, ret>>
    /\ UNCHANGED <<targets, mounted, handoffs>>

\* main, lines 77-83: every target is done, the result is handed off
report_results ==
    /\ pc = "main"
    /\ ti > Len(targets)
    /\ handoffs' = handoffs + 1
    /\ pc' = "done"
    /\ UNCHANGED <<call, ret>>
    /\ UNCHANGED <<targets, results, ti, partitions, pi, INSPECT_PATH, session,
                   mounted, calls>>

Next ==
    \/ mount_and_inspect_missing
    \/ mount_and_inspect_found
    \/ mount_and_inspect_raises
    \/ check_partition_mount
    \/ check_partition_mount_fails
    \/ check_partition_inspect
    \/ check_partition_inspect_raises
    \/ mount_close
    \/ mount_close_fails
    \/ report_results

Spec == Init /\ [][Next]_vars

(***************************************************************************)
(* Reading the result tree.                                                *)
(***************************************************************************)
ImageIds == DOMAIN results.images

\* the (image, drive, partition) keys under which a record is stored
RecordKeys(res) ==
    UNION { UNION { { <<i, d, p>> : p \in DOMAIN res.images[i].drives[d] }
                    : d \in DOMAIN res.images[i].drives }
            : i \in DOMAIN res.images }

RecordAt(res, key) == res.images[key[1]].drives[key[2]][key[3]]

\* the partition records stored under an image
RecordsOf(i) ==
    { RecordAt(results, key) : key \in { k \in RecordKeys(results) : k[1] = i } }

Detectors == {"rhel_release_files", "rhel_product_certs", "rhel_enabled_repos",
              "rhel_signed_packages"}

AnyFound(rec) == \E det \in Detectors : rec.facts[det].rhel_found

Finished == pc \in {"done", "crashed"}

(***************************************************************************)
(* C1: in every state, that is after each partition's merge and at the     *)
(* hand-off, every image has rhel_found equal to the disjunction of its    *)
(* four per-heuristic flags.                                               *)
(***************************************************************************)
C1_RhelFoundIsDisjunction ==
    \A i \in ImageIds :
       results.images[i].rhel_found =
          (\/ results.images[i].rhel_release_files_found
           \/ results.images[i].rhel_product_certs_found
           \/ results.images[i].rhel_enabled_repos_found
           \/ results.images[i].rhel_signed_packages_found)

\* handed off: an image on which RHEL was found through signed packages only,
\* with a failed mount or unmount recorded for it
C1_Witness ==
    /\ pc = "done"
    /\ \E i \in ImageIds :
         /\ results.images[i].rhel_found
         /\ results.images[i].rhel_signed_packages_found
         /\ ~results.images[i].rhel_release_files_found
         /\ ~results.images[i].rhel_product_certs_found
         /\ ~results.images[i].rhel_enabled_repos_found
         /\ results.images[i].errors # <<>>

(***************************************************************************)
(* C2: at the hand-off, rhel_found of an image is true iff a partition     *)
(* record stored under the image has one of its four found flags true, and *)
(* each per-heuristic image flag is true iff that detector's found flag is *)
(* true in a stored record of the image.                                   *)
(***************************************************************************)
C2_FlagsMatchStoredRecords ==
    pc = "done" =>
       \A i \in ImageIds :
          /\ results.images[i].rhel_found <=> \E rec \in RecordsOf(i) : AnyFound(rec)
          /\ results.images[i].rhel_release_files_found
                <=> \E rec \in RecordsOf(i) : rec.facts.rhel_release_files.rhel_found
          /\ results.images[i].rhel_product_certs_found
                <=> \E rec \in RecordsOf(i) : rec.facts.rhel_product_certs.rhel_found
          /\ results.images[i].rhel_enabled_repos_found
                <=> \E rec \in RecordsOf(i) : rec.facts.rhel_enabled_repos.rhel_found
          /\ results.images[i].rhel_signed_packages_found
                <=> \E rec \in RecordsOf(i) : rec.facts.rhel_signed_packages.rhel_found

(***************************************************************************)
(* C3: no error escapes main before the hand-off, and the result is handed *)
(* off at most once and only after every target has been processed.        *)
(***************************************************************************)
C3_NoErrorEscapesMain ==
    /\ pc # "crashed"
    /\ handoffs <= 1
    /\ handoffs = 1 => ti > Len(targets)

(***************************************************************************)
(* C4: at the end of a run the number of unmount attempts equals the       *)
(* number of successful mounts.                                            *)
(***************************************************************************)
C4_EveryMountIsUnmounted ==
    Finished => calls["umount"] = calls["mount_ok"]

(***************************************************************************)
(* C5: the mount command is issued only when nothing is mounted on the     *)
(* mount path and INSPECT_PATH is not redirected.                          *)
(***************************************************************************)
C5_OneSessionAtATime ==
    [][calls'["mount"] # calls["mount"]
         => mounted = 0 /\ INSPECT_PATH = DefaultInspectPath]_vars

(***************************************************************************)
(* Reading a step.                                                         *)
(***************************************************************************)
\* the key of the partition check_partition is working on
CurrentKey == <<image_id, drive, partition>>

\* the five flags, rhel_version and syspurpose of an image
Verdict(image) ==
    <<image.rhel_found, image.rhel_release_files_found,
      image.rhel_product_certs_found, image.rhel_enabled_repos_found,
      image.rhel_signed_packages_found, image.rhel_version, image.syspurpose>>

\* the step in which the mount command fails
MountFailsStep ==
    /\ calls'["mount"] = calls["mount"] + 1
    /\ calls'["mount_ok"] = calls["mount_ok"]

\* the step in which the detectors finish and their findings are merged
MergeStep == pc = "inspect" /\ pc' = "close"

\* the step in which mount_and_inspect reports a target
TargetErrorStep == pc = "main" /\ results'.errors # results.errors

(***************************************************************************)
(* C6: a failing mount affects its partition only: the record gets an      *)
(* error, no detector runs on it, no image's flags, rhel_version or        *)
(* syspurpose change, and the run goes on with the next partition of the   *)
(* target, or with the next target after the last partition.               *)
(***************************************************************************)
C6_MountFailureIsIsolated ==
    [][MountFailsStep =>
         /\ RecordAt(results', CurrentKey).error # Absent
         /\ RecordAt(results', CurrentKey).facts = NewPartitionResult.facts
         /\ calls'["detectors"] = calls["detectors"]
         /\ DOMAIN results'.images = ImageIds
         /\ \A i \in ImageIds :
              Verdict(results'.images[i]) = Verdict(results.images[i])
         /\ targets' = targets
         /\ IF pi < Len(partitions)
            THEN pc' = "check_partition" /\ ti' = ti /\ pi' = pi + 1
                 /\ partitions' = partitions
            ELSE pc' = "main" /\ ti' = ti + 1]_vars

\* the first partition of a drive failed to mount and the second one is mounted
C6_Witness ==
    /\ pc = "inspect"
    /\ pi = 2
    /\ RecordAt(results, <<image_id, drive, partitions[1]>>).error # Absent
    /\ RecordAt(results, <<image_id, drive, partitions[1]>>).facts
          = NewPartitionResult.facts

(***************************************************************************)
(* C7: no step of check_partition, and so none that ends in an error,      *)
(* removes or changes the stored record of another partition.              *)
(***************************************************************************)
C7_SiblingRecordsKept ==
    [][\A key \in RecordKeys(results) :
          \/ pc \in {"check_partition", "inspect", "close"} /\ key = CurrentKey
          \/ /\ key \in RecordKeys(results')
             /\ RecordAt(results', key) = RecordAt(results, key)]_vars

\* one target: its first partition was inspected and is still recorded as it
\* was, its second partition ended in an error
C7_Witness ==
    /\ Len(targets) = 1
    /\ pc = "done"
    /\ \E key1, key2 \in RecordKeys(results) :
         /\ key1[3] = "/dev/sda1"
         /\ key2[3] = "/dev/sda2"
         /\ RecordAt(results, key1).error = Absent
         /\ RecordAt(results, key1).facts.rhel_release_files.filled
         /\ RecordAt(results, key2).error # Absent

(***************************************************************************)
(* C8: for a target whose device path does not exist, one and the same     *)
(* message is appended once to RunResult.errors and once to the image's    *)
(* errors, no command is issued, the image's flags, rhel_version and       *)
(* syspurpose keep their values (false and None for a new image), and the  *)
(* run goes on with the next target.                                       *)
(***************************************************************************)
C8_MissingDevicePath ==
    [][TargetErrorStep =>
         LET message == <<"Nothing found at path", drive, image_id>>
             known == image_id \in ImageIds
         IN  /\ results'.errors = Append(results.errors, message)
             /\ results'.images[image_id].errors =
                   Append(IF known THEN results.images[image_id].errors ELSE <<>>,
                          message)
             /\ calls' = calls
             /\ mounted' = mounted
             /\ Verdict(results'.images[image_id]) =
                   IF known
                   THEN Verdict(results.images[image_id])
                   ELSE <<FALSE, FALSE, FALSE, FALSE, FALSE, None, None>>
             /\ RecordKeys(results') = RecordKeys(results)
             /\ \A i \in ImageIds \ {image_id} : results'.images[i] = results.images[i]
             /\ pc' = "main" /\ ti' = ti + 1 /\ targets' = targets]_vars

\* the first target had no device, the second one is being inspected
C8_Witness ==
    /\ pc = "inspect"
    /\ ti = 2
    /\ results.errors = <<<<"Nothing found at path", targets[1][2], targets[1][1]>>>>
    /\ results.images[targets[1][1]].errors = results.errors

(***************************************************************************)
(* C9 as stated: after the merge of a partition on which RHEL was found by *)
(* any of the four heuristics and whose OS version is not empty, the       *)
(* image's rhel_version is that OS version.                                *)
(***************************************************************************)
C9_VersionFromAnyHeuristic ==
    pc = "close" =>
       LET facts == RecordAt(results, CurrentKey).facts
       IN  AnyFound(RecordAt(results, CurrentKey)) /\ facts.os_version # None
              => results.images[image_id].rhel_version = facts.os_version

(***************************************************************************)
(* C9 as amended: the merge of a partition sets the image's rhel_version   *)
(* to the partition's OS version iff the release-file detector found RHEL  *)
(* on it and the OS version is not empty; every other step leaves          *)
(* rhel_version as it is (None for a new image).  So after a run it is the *)
(* OS version of the last such partition, None if there is none.           *)
(***************************************************************************)
C9_VersionFromReleaseFiles ==
    [][\A i \in DOMAIN results'.images :
          results'.images[i].rhel_version =
             IF /\ MergeStep
                /\ i = image_id
                /\ RecordAt(results', CurrentKey).facts.rhel_release_files.rhel_found
                /\ RecordAt(results', CurrentKey).facts.os_version # None
             THEN RecordAt(results', CurrentKey).facts.os_version
             ELSE IF i \in ImageIds THEN results.images[i].rhel_version ELSE None]_vars

\* the last partition with a RHEL release file and a version wins over an
\* earlier one
C9_Witness ==
    /\ pc = "close"
    /\ RecordAt(results, CurrentKey).facts.rhel_release_files.rhel_found
    /\ RecordAt(results, CurrentKey).facts.os_version = "8.1"
    /\ results.images[image_id].rhel_version = "8.1"
    /\ \E rec \in RecordsOf(image_id) :
         /\ rec.facts.rhel_release_files.rhel_found
         /\ rec.facts.os_version = "7.4"

(***************************************************************************)
(* C10 as stated: after the merge of a partition on which RHEL was found   *)
(* and whose syspurpose content is not empty and parses, the image's       *)
(* syspurpose is the parsed document.                                      *)
(***************************************************************************)
C10_SyspurposeFromAnyParsed ==
    pc = "close" =>
       LET facts == RecordAt(results, CurrentKey).facts
       IN  /\ AnyFound(RecordAt(results, CurrentKey))
           /\ facts.syspurpose_contents # None
           /\ JsonLoads(facts.syspurpose_contents) # JSONDecodeError
           => results.images[image_id].syspurpose = JsonLoads(facts.syspurpose_contents)

(***************************************************************************)
(* C10 as amended: the merge of a partition sets the image's syspurpose to *)
(* the parsed document iff RHEL was found on the partition by some         *)
(* heuristic, the content is not empty, it parses and the parsed document  *)
(* is not empty; every other step leaves syspurpose as it is (None for a   *)
(* new image).  So after a run it is the document of the last such         *)
(* partition, None if there is none.                                       *)
(***************************************************************************)
C10_SyspurposeFromNonEmptyDocument ==
    [][\A i \in DOMAIN results'.images :
          results'.images[i].syspurpose =
             IF /\ MergeStep
                /\ i = image_id
                /\ AnyFound(RecordAt(results', CurrentKey))
                /\ RecordAt(results', CurrentKey).facts.syspurpose_contents # None
                /\ JsonLoads(RecordAt(results', CurrentKey).facts.syspurpose_contents)
                      \notin {JSONDecodeError, "dict()"}
             THEN JsonLoads(RecordAt(results', CurrentKey).facts.syspurpose_contents)
             ELSE IF i \in ImageIds THEN results.images[i].syspurpose ELSE None]_vars

\* a RHEL partition whose syspurpose.json holds {} has been merged and the
\* image keeps the document of an earlier partition
C10_Witness ==
    /\ pc = "close"
    /\ AnyFound(RecordAt(results, CurrentKey))
    /\ RecordAt(results, CurrentKey).facts.syspurpose_contents = "{}"
    /\ results.images[image_id].syspurpose = "dict(role=a)"

(***************************************************************************)
(* C11: no detector lets an error leave the coordinator: once a partition  *)
(* is mounted, the pass of the detectors always ends in the merge of their *)
(* findings, with every detector's sub-record written, and never in the    *)
(* end of the run.                                                         *)
(***************************************************************************)
C11_DetectorErrorsStayInside ==
    [][pc = "inspect" /\ pc' # "inspect" =>
         /\ pc' = "close"
         /\ \A det \in Detectors :
              RecordAt(results', CurrentKey).facts[det].filled]_vars

(***************************************************************************)
(* Where a partition lives.                                                *)
(***************************************************************************)
\* the drive whose physical volume holds the volume group of LvPaths
LvDrive == "/dev/sdb"

\* the drive a device node or logical volume is part of
HomeDrive(part) ==
    IF \E k \in 1..Len(LvPaths) : LvPaths[k] = part
    THEN LvDrive
    ELSE CHOOSE d \in Drives :
            \E k \in 1..MaxParts : DeviceNodes(d, MaxParts)[k] = part

TargetDrives == { targets[k][2] : k \in 1..Len(targets) }

(***************************************************************************)
(* C12: no partition or logical volume of one target's drive is recorded   *)
(* under another target: every stored record whose partition lives on a    *)
(* drive of the target list is stored under that drive.                    *)
(***************************************************************************)
C12_NoRecordFromAnotherTarget ==
    \A key \in RecordKeys(results) :
       HomeDrive(key[3]) \in TargetDrives => key[2] = HomeDrive(key[3])

(***************************************************************************)
(* C13: RunResult.errors and the images' errors hold the same messages:    *)
(* the messages of RunResult.errors about an image are, in the same order, *)
(* the errors of that image, and the length of RunResult.errors is the sum *)
(* of the lengths of the images' errors.                                   *)
(***************************************************************************)
RECURSIVE ImageErrorCount(_)
ImageErrorCount(ids) ==
    IF ids = {}
    THEN 0
    ELSE LET i == CHOOSE x \in ids : TRUE
         IN  Len(results.images[i].errors) + ImageErrorCount(ids \ {i})

C13_ErrorListsAgree ==
    /\ \A i \in ImageIds :
          SelectSeq(results.errors, LAMBDA m : m[3] = i) = results.images[i].errors
    /\ \A k \in 1..Len(results.errors) : results.errors[k][3] \in ImageIds
    /\ Len(results.errors) = ImageErrorCount(ImageIds)

\* handed off: a missing device path for one image and a failed mount for
\* another, each in both lists
C13_Witness ==
    /\ pc = "done"
    /\ Len(results.errors) = 2
    /\ results.errors[1][1] = "Nothing found at path"
    /\ results.errors[2][1] = "Mount failed"
    /\ results.errors[2][4] = "mount"
    /\ results.errors[1][3] # results.errors[2][3]
    /\ results.images[results.errors[1][3]].errors = <<results.errors[1]>>
    /\ results.images[results.errors[2][3]].errors = <<results.errors[2]>>

(***************************************************************************)
(* C15: while a session is open the inspection root is the resolved        *)
(* deployment path if an ostree deployment was found and the mount path    *)
(* otherwise, and whenever no session is open, also after a detector       *)
(* raised, it is the mount path again.                                     *)
(***************************************************************************)
C15_InspectionRootRestored ==
    IF pc \in {"inspect", "close"}
    THEN INSPECT_PATH = (IF session.ostree_path # None
                         THEN session.ostree_path
                         ELSE DefaultInspectPath)
    ELSE INSPECT_PATH = DefaultInspectPath

(***************************************************************************)
(* Functions of cli.py run on their own. What a call reads from the system *)
(* is in the variable call, what the calls returned is in ret.             *)
(***************************************************************************)
\* most lines blkid prints
MaxLines == 2
\* most calls of a function on the same input
MaxCalls == 2

Returned(value) == [raised |-> None, value |-> value]
Raised(exception) == [raised |-> exception, value |-> None]

\* dict.get(key, default)
Get(dict, key, default) == IF key \in DOMAIN dict THEN dict[key] ELSE default

(***************************************************************************)
(* get_partitions.                                                         *)
(***************************************************************************)
\* lines `blkid -p -o export` may print for a drive
BlkidLines == {"PTTYPE=gpt", "PTTYPE=", "USAGE=filesystem", "USAGE=raid",
               "TYPE=xfs", "IM=NOT&GOOD(WITH)=COMPUTER", "POTATO", ""}

\* the outputs of blkid: each line is followed by a line feed
BlkidOutputs == UNION { [1..n -> BlkidLines] : n \in 0..MaxLines }

\* str.rstrip: the line feeds (so the empty lines) at the end go
RECURSIVE Rstrip(_)
Rstrip(lines) ==
    IF lines # <<>> /\ lines[Len(lines)] = ""
    THEN Rstrip(SubSeq(lines, 1, Len(lines) - 1))
    ELSE lines

\* blkid_out.rstrip().split("\n"): splitting the empty string gives [""]
RstripSplit(lines) == IF Rstrip(lines) = <<>> THEN <<"">> ELSE Rstrip(lines)

\* x.split("=", 1)
SplitOnce(line) ==
    CASE line = "PTTYPE=gpt" -> <<"PTTYPE", "gpt">>
      [] line = "PTTYPE=" -> <<"PTTYPE", "">>
      [] line = "USAGE=filesystem" -> <<"USAGE", "filesystem">>
      [] line = "USAGE=raid" -> <<"USAGE", "raid">>
      [] line = "TYPE=xfs" -> <<"TYPE", "xfs">>
      [] line = "IM=NOT&GOOD(WITH)=COMPUTER" -> <<"IM", "NOT&GOOD(WITH)=COMPUTER">>
      [] OTHER -> <<line>>

\* dict(items) raises ValueError unless every item has two elements
DictRaises(items) == \E k \in 1..Len(items) : Len(items[k]) # 2

\* dict(items): a later item replaces an earlier one with the same key
RECURSIVE Dict(_)
Dict(items) ==
    IF items = <<>>
    THEN EmptyMap
    ELSE LET last == items[Len(items)]
         IN  (last[1] :> last[2]) @@ Dict(SubSeq(items, 1, Len(items) - 1))

\* the items the map of line 567 yields
BlkidItems(blkid_out) ==
    [k \in 1..Len(RstripSplit(blkid_out)) |-> SplitOnce(RstripSplit(blkid_out)[k])]

\* the pattern get_partitions hands to glob, after the drive's path
GlobPattern(blkid_dict) ==
    IF Get(blkid_dict, "PTTYPE", None) \notin {None, ""}
    THEN "*[0-9]"
    ELSE IF Get(blkid_dict, "USAGE", "") = "filesystem"
         THEN "*"
         ELSE "*"

GlobPatterns == {"*[0-9]", "*"}

\* a device node is written as what follows the drive's path in its name, a
\* sequence of character codes: the drive itself, and its partitions 1, 10, 2
DriveNode == <<>>
PartitionNodes == {<<49>>, <<49, 48>>, <<50>>}
IsDigit(c) == c \in 48..57

\* the device nodes that may exist: the drive and up to two partitions
DeviceStates ==
    { {DriveNode} \cup parts : parts \in { ps \in SUBSET PartitionNodes : ps # PartitionNodes } }

\* the nodes a pattern matches
Glob(nodes, pattern) ==
    IF pattern = "*[0-9]"
    THEN { n \in nodes : n # <<>> /\ IsDigit(n[Len(n)]) }
    ELSE nodes

\* the orders in which the elements of a set may be listed: glob.glob returns
\* its matches in arbitrary order, and so does the iteration of a Python set
Orders(matches) ==
    { order \in [1..Cardinality(matches) -> matches] :
        \A a, b \in DOMAIN order : a # b => order[a] # order[b] }

\* what glob.glob may return for each pattern
GlobResults(nodes) ==
    { glob_out \in [GlobPatterns -> UNION { Orders(Glob(nodes, p)) : p \in GlobPatterns }] :
        \A p \in GlobPatterns : glob_out[p] \in Orders(Glob(nodes, p)) }

\* the order of Python strings
RECURSIVE StrLeq(_, _)
StrLeq(s, t) ==
    IF s = <<>> THEN TRUE
    ELSE IF t = <<>> THEN FALSE
    ELSE IF Head(s) # Head(t) THEN Head(s) < Head(t)
    ELSE StrLeq(Tail(s), Tail(t))

\* sorted(): insertion of one element into a sorted list
RECURSIVE Insert(_, _)
Insert(x, list) ==
    IF list = <<>> THEN <<x>>
    ELSE IF StrLeq(x, Head(list)) THEN <<x>> \o list
    ELSE <<Head(list)>> \o Insert(x, Tail(list))

RECURSIVE sorted(_)
sorted(list) == IF list = <<>> THEN <<>> ELSE Insert(Head(list), sorted(Tail(list)))

\* get_partitions with the list as glob returned it
get_partitions_GlobOrder(blkid_out, glob_out) ==
    IF DictRaises(BlkidItems(blkid_out))
    THEN Raised("ValueError")
    ELSE Returned(glob_out[GlobPattern(Dict(BlkidItems(blkid_out)))])

\* get_partitions, lines 565-596
get_partitions(blkid_out, glob_out) ==
    IF DictRaises(BlkidItems(blkid_out))
    THEN Raised("ValueError")
    ELSE Returned(sorted(glob_out[GlobPattern(Dict(BlkidItems(blkid_out)))]))

GetPartitionsCalls ==
    { [fn |-> "get_partitions", blkid_out |-> out, nodes |-> nodes] :
        out \in BlkidOutputs, nodes \in DeviceStates }

call_get_partitions ==
    /\ pc = "function"
    /\ call.fn = "get_partitions"
    /\ Len(ret) < MaxCalls
    /\ \E glob_out \in GlobResults(call.nodes) :
         ret' = Append(ret, get_partitions(call.blkid_out, glob_out))
    /\ UNCHANGED <<targets, results, pc, ti, partitions, pi, INSPECT_PATH, session,
                   mounted, calls, handoffs, call>>

(***************************************************************************)
(* get_syspurpose, on the syspurpose.json of the mounted volume.           *)
(***************************************************************************)
\* cli.py:35
SYSPURPOSE_FILESIZE_LIMIT == 1024
\* largest syspurpose.json
MaxFileSize == 1026

\* the text of a file of the given size; texts of the same size may differ
Contents(size, text) == [size |-> size, text |-> IF size = 0 THEN "" ELSE text]

\* syspurpose.json: whether glob finds it, what it holds, whether open() and
\* read() succeed
SyspurposeFiles ==
    { [exists |-> e, contents |-> Contents(n, t), readable |-> r] :
        e \in BOOLEAN, n \in 0..MaxFileSize, t \in {"a", "b"}, r \in BOOLEAN }

\* the value returned (is_none: the value is None) and the number of open()s
SyspurposeResult(is_none, contents, reads) ==
    [is_none |-> is_none, contents |-> contents, reads |-> reads]

\* get_syspurpose skipping the files of the limit's size too
get_syspurpose_file_SkipsAtLimit(file) ==
    IF ~file.exists
    THEN SyspurposeResult(TRUE, Contents(0, ""), 0)
    ELSE IF file.contents.size >= SYSPURPOSE_FILESIZE_LIMIT
    THEN SyspurposeResult(TRUE, Contents(0, ""), 0)
    ELSE IF ~file.readable
    THEN SyspurposeResult(TRUE, Contents(0, ""), 1)
    ELSE IF file.contents.size = 0
    THEN SyspurposeResult(TRUE, Contents(0, ""), 1)
    ELSE SyspurposeResult(FALSE, file.contents, 1)

\* get_syspurpose, lines 693-721
get_syspurpose_file(file) ==
    IF ~file.exists
    THEN SyspurposeResult(TRUE, Contents(0, ""), 0)
    ELSE IF file.contents.size > SYSPURPOSE_FILESIZE_LIMIT
    THEN SyspurposeResult(TRUE, Contents(0, ""), 0)
    ELSE IF ~file.readable
    THEN SyspurposeResult(TRUE, Contents(0, ""), 1)
    ELSE IF file.contents.size = 0
    THEN SyspurposeResult(TRUE, Contents(0, ""), 1)
    ELSE SyspurposeResult(FALSE, file.contents, 1)

GetSyspurposeCalls == { [fn |-> "get_syspurpose", file |-> f] : f \in SyspurposeFiles }

call_get_syspurpose ==
    /\ pc = "function"
    /\ call.fn = "get_syspurpose"
    /\ Len(ret) < MaxCalls
    /\ ret' = Append(ret, get_syspurpose_file(call.file))
    /\ UNCHANGED <<targets, results, pc, ti, partitions, pi, INSPECT_PATH, session,
                   mounted, calls, handoffs, call>>

(***************************************************************************)
(* check_for_signed_packages, on the RPM database of the mounted volume.   *)
(***************************************************************************)
\* var/lib/rpm: not there, there without files, there with files
RpmDbStates == {"absent", "empty", "data"}

\* glob.glob("{0}/var/lib/rpm/*")
RpmDbGlob(rpm_db) == IF rpm_db = "data" THEN {"Packages"} ELSE {}

\* what the package query would do if it were run
RpmQueries == {"0", "3", "fail", "garbled"}

NoDataMessage == "RPM DB directory has no data"

\* the sub-record of the detector, whether it raised, and how often the
\* package query was run
SignedPackagesResult(raised, written, subprocess) ==
    [raised |-> raised, results |-> written, subprocess |-> subprocess]

SignedPackagesDict(count) ==
    ("rhel_found" :> (count # 0)) @@ ("rhel_signed_package_count" :> count)

\* the package query with a failure that is not caught
RunRpmQuery_FailureRaises(query) ==
    CASE query \in {"garbled", "fail"} -> SignedPackagesResult("ValueError", EmptyMap, 1)
      [] OTHER ->
           SignedPackagesResult(None, SignedPackagesDict(SignedRpmCount(query)), 1)

\* the package query run on the given database
RunRpmQuery(query) ==
    CASE query = "garbled" -> SignedPackagesResult("ValueError", EmptyMap, 1)
      [] query = "fail" ->
           SignedPackagesResult(None, ("error" :> "stderr") @@ SignedPackagesDict(0), 1)
      [] OTHER ->
           SignedPackagesResult(None, SignedPackagesDict(SignedRpmCount(query)), 1)

\* check_for_signed_packages without the early return of lines 488-496
check_for_signed_packages_AlwaysQueries(rpm_db, query) ==
    RunRpmQuery(query)

\* check_for_signed_packages, lines 477-533
check_for_signed_packages_on(rpm_db, query) ==
    IF RpmDbGlob(rpm_db) = {}
    THEN SignedPackagesResult(None,
                              ("status" :> NoDataMessage) @@ SignedPackagesDict(0), 0)
    ELSE RunRpmQuery(query)

SignedPackagesCalls ==
    { [fn |-> "check_for_signed_packages", rpm_db |-> db, query |-> q] :
        db \in RpmDbStates, q \in RpmQueries }

call_check_for_signed_packages ==
    /\ pc = "function"
    /\ call.fn = "check_for_signed_packages"
    /\ Len(ret) < MaxCalls
    /\ ret' = Append(ret, check_for_signed_packages_on(call.rpm_db, call.query))
    /\ UNCHANGED <<targets, results, pc, ti, partitions, pi, INSPECT_PATH, session,
                   mounted, calls, handoffs, call>>

(***************************************************************************)
(* check_release_files, on the etc/*-release files of the mounted volume.  *)
(***************************************************************************)
\* most files a glob of the detectors matches
MaxFiles == 2

\* a release file: it contains "Red Hat" ("rhel"), it does not ("other"), its
\* bytes cannot be decoded ("undecodable"), or it is a link to nothing
\* ("missing")
ReleaseFileKinds == {"rhel", "other", "undecodable", "missing"}

\* find_release_files: the matches of the glob
ReleaseFileLists == UNION { [1..n -> ReleaseFileKinds] : n \in 0..MaxFiles }

\* check_file, lines 645-667
check_file(file) ==
    CASE file = "rhel" -> Returned(<<TRUE, "Red Hat Enterprise Linux">>)
      [] file = "other" -> Returned(<<FALSE, "CentOS Linux">>)
      [] file = "missing" -> Returned(<<FALSE, None>>)
      [] OTHER -> Raised("UnicodeDecodeError")

\* the state of the detector inside its loop: the sub-record's rhel_found and
\* release_files, the exception messages, and whether the loop was left
ReleaseFilesState(found, release_files, messages, stopped) ==
    [rhel_found |-> found, release_files |-> release_files,
     exception_messages |-> messages, stopped |-> stopped]

\* lines 447-471 with the try around the whole loop: the first exception ends it
CheckOneReleaseFile_StopsAtError(state, k, file) ==
    IF state.stopped
    THEN state
    ELSE IF check_file(file).raised # None
    THEN [state EXCEPT !.exception_messages = Append(@, check_file(file).raised),
                       !.stopped = TRUE]
    ELSE [state EXCEPT
            !.release_files =
               Append(@, [rhel_release_file |-> k,
                          rhel_release_file_contents |-> check_file(file).value[2],
                          rhel_found |-> check_file(file).value[1]]),
            !.rhel_found = check_file(file).value[1] \/ @]

\* lines 447-471: one pass of the loop, on the k-th file
CheckOneReleaseFile(state, k, file) ==
    IF check_file(file).raised # None
    THEN [state EXCEPT !.exception_messages = Append(@, check_file(file).raised)]
    ELSE [state EXCEPT
            !.release_files =
               Append(@, [rhel_release_file |-> k,
                          rhel_release_file_contents |-> check_file(file).value[2],
                          rhel_found |-> check_file(file).value[1]]),
            !.rhel_found = check_file(file).value[1] \/ @]

\* the for loop of line 447 over the first n files
RECURSIVE ReleaseFilesLoop(_, _)
ReleaseFilesLoop(files, n) ==
    IF n = 0
    THEN ReleaseFilesState(FALSE, <<>>, <<>>, FALSE)
    ELSE CheckOneReleaseFile(ReleaseFilesLoop(files, n - 1), n, files[n])

\* check_release_files, lines 429-474: the sub-record; status holds the lines
\* of the message
check_release_files_on(files) ==
    IF files = <<>>
    THEN [rhel_found |-> FALSE, release_files |-> <<>>,
          status |-> <<"No release files found">>]
    ELSE [rhel_found |-> ReleaseFilesLoop(files, Len(files)).rhel_found,
          release_files |-> ReleaseFilesLoop(files, Len(files)).release_files,
          status |-> ReleaseFilesLoop(files, Len(files)).exception_messages]

ReleaseFilesCalls == { [fn |-> "check_release_files", files |-> f] : f \in ReleaseFileLists }

call_check_release_files ==
    /\ pc = "function"
    /\ call.fn = "check_release_files"
    /\ Len(ret) < MaxCalls
    /\ ret' = Append(ret, check_release_files_on(call.files))
    /\ UNCHANGED <<targets, results, pc, ti, partitions, pi, INSPECT_PATH, session,
                   mounted, calls, handoffs, call>>

(***************************************************************************)
(* check_repo_files, on the repo files find_repos_via_config found.        *)
(***************************************************************************)
\* cli.py:26
RHEL_REPOS == <<"rhel", "red hat">>

RepoSection(repo, name, enabled) == [repo |-> repo, name |-> name, enabled |-> enabled]

\* sections of yum repo files
RepoSections ==
    { RepoSection("rhel-7", "RHEL 7", "1"),
      RepoSection("rhel-7", "Red Hat RHEL 7", "1"),
      RepoSection("rhel-8", "RHEL 7", "1"),
      RepoSection("rhel-7", "RHEL 7", "0"),
      RepoSection("epel", "EPEL", "1") }

\* a repo file: up to two sections with different names (configparser refuses
\* a section that occurs twice)
RepoFiles ==
    { file \in UNION { [1..n -> RepoSections] : n \in 0..2 } :
        \A a, b \in DOMAIN file : a # b => file[a].repo # file[b].repo }

RepoFileLists == UNION { [1..n -> RepoFiles] : n \in 0..MaxFiles }

\* repo_name in parser[repo].get("name", "").lower()
InLowerName(repo_name, name) ==
    CASE name = "RHEL 7" -> repo_name = "rhel"
      [] name = "Red Hat RHEL 7" -> repo_name \in {"rhel", "red hat"}
      [] OTHER -> FALSE

RECURSIVE Concat(_)
Concat(lists) == IF lists = <<>> THEN <<>> ELSE Head(lists) \o Concat(Tail(lists))

\* lines 879-884 without the test of enabled
SectionEntries_IgnoresEnabled(section) ==
    Concat([k \in DOMAIN RHEL_REPOS |->
               IF InLowerName(RHEL_REPOS[k], section.name)
               THEN <<[repo |-> section.repo, name |-> section.name]>>
               ELSE <<>>])

\* lines 879-884: what one section appends to rhel_repos
SectionEntries(section) ==
    Concat([k \in DOMAIN RHEL_REPOS |->
               IF InLowerName(RHEL_REPOS[k], section.name) /\ section.enabled = "1"
               THEN <<[repo |-> section.repo, name |-> section.name]>>
               ELSE <<>>])

\* lines 874-884: rhel_repos before the deduplication
CollectedRepos(file_paths) ==
    Concat([f \in DOMAIN file_paths |->
               Concat([k \in DOMAIN file_paths[f] |->
                          SectionEntries(file_paths[f][k])])])

\* the set of lines 887-890
Deduplicated(list) == { list[k] : k \in DOMAIN list }

\* check_repo_files without lines 885-890
check_repo_files_NoDeduplication(file_paths) ==
    { CollectedRepos(file_paths) }

\* check_repo_files, lines 862-891: the lists it may return (a set is
\* iterated in arbitrary order)
check_repo_files(file_paths) ==
    Orders(Deduplicated(CollectedRepos(file_paths)))

RepoFilesCalls == { [fn |-> "check_repo_files", file_paths |-> f] : f \in RepoFileLists }

call_check_repo_files ==
    /\ pc = "function"
    /\ call.fn = "check_repo_files"
    /\ Len(ret) < MaxCalls
    /\ \E rhel_repos \in check_repo_files(call.file_paths) :
         ret' = Append(ret, rhel_repos)
    /\ UNCHANGED <<targets, results, pc, ti, partitions, pi, INSPECT_PATH, session,
                   mounted, calls, handoffs, call>>

(***************************************************************************)
(* check_enabled_repos, on the repo files of the mounted volume.           *)
(***************************************************************************)
\* check_enabled_repos, lines 894-922: the sub-record. failing is the index of
\* the file whose parsing raises (0: none does), rhel_repos the list
\* check_repo_files returns if none does
check_enabled_repos_on(repo_files, failing, rhel_repos) ==
    IF repo_files # <<>> /\ failing # 0
    THEN ("rhel_found" :> FALSE) @@ ("status" :> "Error reading yum repo files")
    ELSE IF repo_files # <<>> /\ rhel_repos # <<>>
    THEN ("rhel_found" :> TRUE) @@ ("rhel_enabled_repos" :> rhel_repos)
    ELSE ("rhel_found" :> FALSE)

EnabledReposCalls ==
    UNION { { [fn |-> "check_enabled_repos", file_paths |-> f, failing |-> n] :
                n \in 0..Len(f) } : f \in RepoFileLists }

call_check_enabled_repos ==
    /\ pc = "function"
    /\ call.fn = "check_enabled_repos"
    /\ Len(ret) < MaxCalls
    /\ \E rhel_repos \in check_repo_files(call.file_paths) :
         ret' = Append(ret, check_enabled_repos_on(call.file_paths, call.failing,
                                                   rhel_repos))
    /\ UNCHANGED <<targets, results, pc, ti, partitions, pi, INSPECT_PATH, session,
                   mounted, calls, handoffs, call>>

(***************************************************************************)
(* check_for_rhel_certs, on the product certificates of the mounted volume.*)
(***************************************************************************)
\* cli.py:24-25
RHEL_PEMS == <<"69.pem", "479.pem">>
CERT_PATHS == <<"/etc/pki/product/", "/etc/pki/product-default/">>

\* names of the files a certificate directory may hold
PemNames == {"69.pem", "479.pem", "185.pem"}

\* a path is written as its directory and its last component;
\* os.path.basename(os.path.normpath(pem))
Basename(pem) == pem[2]

\* check_for_rhel_certs without the allow-list
check_for_rhel_certs_AnyPem(pem_paths) ==
    [rhel_pem_files |-> pem_paths, rhel_found |-> pem_paths # <<>>]

\* check_for_rhel_certs, lines 410-426, on the paths the globs returned
check_for_rhel_certs_on(pem_paths) ==
    LET matching_pems ==
           SelectSeq(pem_paths,
                     LAMBDA pem : \E k \in DOMAIN RHEL_PEMS : RHEL_PEMS[k] = Basename(pem))
    IN  [rhel_pem_files |-> matching_pems, rhel_found |-> matching_pems # <<>>]

\* pems[d] are the names of the files in the directory CERT_PATHS[d]
RhelCertsCalls ==
    { [fn |-> "check_for_rhel_certs", pems |-> pems] :
        pems \in [DOMAIN CERT_PATHS -> SUBSET PemNames] }

call_check_for_rhel_certs ==
    /\ pc = "function"
    /\ call.fn = "check_for_rhel_certs"
    /\ Len(ret) < MaxCalls
    /\ \E first \in Orders({ <<CERT_PATHS[1], name>> : name \in call.pems[1] }) :
         \E second \in Orders({ <<CERT_PATHS[2], name>> : name \in call.pems[2] }) :
            ret' = Append(ret, check_for_rhel_certs_on(first \o second))
    /\ UNCHANGED <<targets, results, pc, ti, partitions, pi, INSPECT_PATH, session,
                   mounted, calls, handoffs, call>>

(***************************************************************************)
(* mount_and_inspect, lines 166-171: the partitions to inspect, with       *)
(* is_lvm on the properties udevadm prints for each partition.             *)
(***************************************************************************)
\* the properties of a partition, as the dict is_lvm builds
UdevProperties ==
    { EmptyMap,
      ("ID_FS_TYPE" :> "xfs"),
      ("ID_FS_TYPE" :> "LVM2_member"),
      ("ID_FS_VERSION" :> "LVM2 001"),
      ("ID_FS_TYPE" :> "ext4") @@ ("ID_FS_VERSION" :> "1.0"),
      ("ID_FS_TYPE" :> "LVM2_member") @@ ("ID_FS_VERSION" :> "LVM2 001") }

\* is_lvm looking at ID_FS_TYPE only
is_lvm_TypeOnly(parts, partition_info) ==
    { parts[k] : k \in { j \in DOMAIN parts :
         Get(partition_info[j], "ID_FS_TYPE", "") = "LVM2_member" } }

\* is_lvm, lines 599-628; of the versions above, "LVM2 001" contains "LVM2"
is_lvm(parts, partition_info) ==
    { parts[k] : k \in { j \in DOMAIN parts :
         \/ Get(partition_info[j], "ID_FS_TYPE", "") = "LVM2_member"
         \/ Get(partition_info[j], "ID_FS_VERSION", "") = "LVM2 001" } }

\* lines 166-171: the list handed to the loop of line 178, and the commands
\* issued after is_lvm
PartitionsToInspect(parts, partition_info) ==
    [partitions |-> InspectedPartitions(parts, is_lvm(parts, partition_info)),
     commands |-> IF parts # <<>> /\ is_lvm(parts, partition_info) # {}
                  THEN <<"lvdisplay", "vgscan --mknodes">>
                  ELSE <<>>]

MountAndInspectCalls ==
    UNION { { [fn |-> "mount_and_inspect", partitions |-> DeviceNodes("/dev/sda", n),
               partition_info |-> info] : info \in [1..n -> UdevProperties] }
            : n \in 0..MaxParts }

call_mount_and_inspect ==
    /\ pc = "function"
    /\ call.fn = "mount_and_inspect"
    /\ Len(ret) < MaxCalls
    /\ ret' = Append(ret, PartitionsToInspect(call.partitions, call.partition_info))
    /\ UNCHANGED <<targets, results, pc, ti, partitions, pi, INSPECT_PATH, session,
                   mounted, calls, handoffs, call>>

(***************************************************************************)
(* check_partition, lines 221-260: the body of the with block, on the      *)
(* mounted volume and the image's entry.                                   *)
(***************************************************************************)
\* lines 221-230 with the package query moved to the end
DetectorOrder_SignedPackagesLast ==
    <<"check_release_files", "check_for_rhel_certs", "check_enabled_repos",
      "get_os_version", "get_syspurpose", "check_for_signed_packages">>

\* lines 221-230: the calls of the body, in the order of the statements
DetectorOrder ==
    <<"check_release_files", "check_for_rhel_certs", "check_enabled_repos",
      "check_for_signed_packages", "get_os_version", "get_syspurpose">>

\* check_for_signed_packages on the RPM database of the volume
SignedPackagesOf(volume) ==
    IF volume.rpm = "nodata"
    THEN check_for_signed_packages_on("empty", "0")
    ELSE check_for_signed_packages_on("data", volume.rpm)

\* the body of the with block: the calls made, whether one raised, the
\* sub-record of the package detector, the facts, the image's entry after
\* it, and the messages added to the error lists
check_partition_body(volume, image) ==
    LET raising == { k \in DOMAIN DetectorOrder :
                       /\ DetectorOrder[k] = "check_for_signed_packages"
                       /\ SignedPackagesOf(volume).raised # None }
        last == IF raising = {}
                THEN Len(DetectorOrder)
                ELSE CHOOSE k \in raising : \A j \in raising : k <= j
    IN  [raised |-> IF raising = {} THEN None ELSE SignedPackagesOf(volume).raised,
         trace |-> SubSeq(DetectorOrder, 1, last)
                      \o (IF raising = {} THEN <<"merge">> ELSE <<>>),
         rhel_signed_packages |-> SignedPackagesOf(volume).results,
         facts |-> IF raising = {}
                   THEN InspectedFacts(volume)
                   ELSE InterruptedFacts(volume),
         image |-> IF raising = {}
                   THEN MergePartition(image, InspectedFacts(volume))
                   ELSE image,
         errors |-> <<>>]

CheckPartitionCalls ==
    { [fn |-> "check_partition", volume |-> v, image |-> i] :
        v \in Volumes,
        i \in { NewImage,
                 [NewImage EXCEPT !.rhel_found = TRUE,
                                  !.rhel_release_files_found = TRUE,
                                  !.rhel_version = "7.4"] } }

call_check_partition ==
    /\ pc = "function"
    /\ call.fn = "check_partition"
    /\ Len(ret) < MaxCalls
    /\ ret' = Append(ret, check_partition_body(call.volume, call.image))
    /\ UNCHANGED <<targets, results, pc, ti, partitions, pi, INSPECT_PATH, session,
                   mounted, calls, handoffs, call>>

(***************************************************************************)
(* The specification of the functions run on their own.                    *)
(***************************************************************************)
FunctionCalls ==
    GetPartitionsCalls \cup GetSyspurposeCalls \cup SignedPackagesCalls
       \cup ReleaseFilesCalls \cup RepoFilesCalls \cup EnabledReposCalls
       \cup RhelCertsCalls \cup MountAndInspectCalls \cup CheckPartitionCalls

InitFunctions ==
    /\ targets = <<FirstTarget>>
    /\ results = [cloud |-> "aws", images |-> EmptyMap, errors |-> <<>>]
    /\ pc = "function"
    /\ ti = 1
    /\ partitions = <<>>
    /\ pi = 0
    /\ INSPECT_PATH = DefaultInspectPath
    /\ session = NoSession
    /\ mounted = 0
    /\ calls = [c \in Commands |-> 0]
    /\ handoffs = 0
    /\ call \in FunctionCalls
    /\ ret = <<>>

NextFunctions ==
    \/ call_get_partitions
    \/ call_get_syspurpose
    \/ call_check_for_signed_packages
    \/ call_check_release_files
    \/ call_check_repo_files
    \/ call_check_enabled_repos
    \/ call_check_for_rhel_certs
    \/ call_mount_and_inspect
    \/ call_check_partition

SpecFunctions == InitFunctions /\ [][NextFunctions]_vars

(***************************************************************************)
(* C14: get_partitions never fails on what blkid prints, lines that are    *)
(* not key=value and empty output included: it always returns a list.      *)
(***************************************************************************)
C14_GetPartitionsNeverFails ==
    call.fn = "get_partitions" =>
       \A k \in 1..Len(ret) : ret[k].raised = None

(***************************************************************************)
(* C20: get_partitions is deterministic and sorted: the calls on the same  *)
(* device state return the same list, which holds the nodes the pattern    *)
(* matches once each, in ascending order of their paths.                   *)
(***************************************************************************)
C20_PartitionsSortedAndStable ==
    call.fn = "get_partitions" =>
       /\ \A j, k \in 1..Len(ret) : ret[j] = ret[k]
       /\ \A k \in 1..Len(ret) :
            ret[k].raised = None =>
               LET list == ret[k].value
               IN  /\ \A a, b \in 1..Len(list) :
                        a < b => StrLeq(list[a], list[b]) /\ list[a] # list[b]
                   /\ { list[a] : a \in 1..Len(list) }
                         = Glob(call.nodes,
                                GlobPattern(Dict(BlkidItems(call.blkid_out))))

\* two calls on a drive with its partitions 10 and 2 returned the drive, then
\* partition 10, then partition 2
C20_Witness ==
    /\ call.fn = "get_partitions"
    /\ Len(ret) = 2
    /\ ret[2].raised = None
    /\ ret[2].value = <<DriveNode, <<49, 48>>, <<50>>>>

(***************************************************************************)
(* C16 as stated: get_syspurpose reads the file only if it exists and is   *)
(* smaller than 1024 bytes: a file under 1024 bytes is returned with       *)
(* identical content, and a file of 1024 bytes or more is not read and     *)
(* yields None.                                                            *)
(***************************************************************************)
C16_ReadOnlyBelowCeiling ==
    call.fn = "get_syspurpose" =>
       \A k \in 1..Len(ret) :
          IF call.file.exists /\ call.file.contents.size < SYSPURPOSE_FILESIZE_LIMIT
          THEN ~ret[k].is_none /\ ret[k].contents = call.file.contents
          ELSE ret[k].is_none /\ ret[k].reads = 0

(***************************************************************************)
(* C16, amended: a file that exists, is readable, not empty and at most    *)
(* 1024 bytes long is returned with identical content; a file longer than  *)
(* 1024 bytes or missing is not read and yields None; an empty or          *)
(* unreadable file of at most 1024 bytes yields None.                      *)
(***************************************************************************)
C16_ReadUpToCeiling ==
    call.fn = "get_syspurpose" =>
       \A k \in 1..Len(ret) :
          LET file == call.file
          IN  IF ~file.exists \/ file.contents.size > SYSPURPOSE_FILESIZE_LIMIT
              THEN ret[k].is_none /\ ret[k].reads = 0
              ELSE IF file.readable /\ file.contents.size > 0
              THEN ~ret[k].is_none /\ ret[k].contents = file.contents
                   /\ ret[k].reads = 1
              ELSE ret[k].is_none

\* a readable file of exactly 1024 bytes has been returned
C16_Witness ==
    /\ call.fn = "get_syspurpose"
    /\ call.file.exists
    /\ call.file.readable
    /\ call.file.contents.size = SYSPURPOSE_FILESIZE_LIMIT
    /\ Len(ret) > 0
    /\ ret[1].contents = call.file.contents

(***************************************************************************)
(* C17: when the package database directory is empty or absent,            *)
(* check_for_signed_packages writes found false, a count of 0 and the      *)
(* "no data" status, and does not run the package query.                   *)
(***************************************************************************)
C17_NoDataNoQuery ==
    call.fn = "check_for_signed_packages" /\ call.rpm_db \in {"absent", "empty"} =>
       \A k \in 1..Len(ret) :
          /\ ret[k].raised = None
          /\ ret[k].subprocess = 0
          /\ DOMAIN ret[k].results =
                {"rhel_found", "rhel_signed_package_count", "status"}
          /\ ret[k].results["rhel_found"] = FALSE
          /\ ret[k].results["rhel_signed_package_count"] = 0
          /\ ret[k].results["status"] = NoDataMessage

\* the detector has run on an empty database directory whose query would
\* have counted signed packages
C17_Witness ==
    /\ call.fn = "check_for_signed_packages"
    /\ call.rpm_db = "empty"
    /\ call.query = "3"
    /\ Len(ret) > 0
    /\ ret[1].subprocess = 0

(***************************************************************************)
(* C18 as stated: check_release_files returns a sub-record whose found     *)
(* flag is the OR of the flags of the files it could read; with no file it *)
(* returns found false and a non-empty status; every file that cannot be   *)
(* read or decoded adds a message to status and the files after it are     *)
(* still examined.                                                         *)
(***************************************************************************)
C18_EveryUnreadableFileReported ==
    call.fn = "check_release_files" =>
       \A k \in 1..Len(ret) :
          /\ ret[k].rhel_found = (\E j \in DOMAIN call.files : call.files[j] = "rhel")
          /\ call.files = <<>> => ~ret[k].rhel_found /\ ret[k].status # <<>>
          /\ call.files # <<>> =>
                Len(ret[k].status) =
                   Cardinality({ j \in DOMAIN call.files :
                                   call.files[j] \in {"undecodable", "missing"} })

(***************************************************************************)
(* C18, amended: the found flag is the OR of the flags of the files read;  *)
(* with no file the sub-record has found false and a non-empty status; a   *)
(* file whose reading raises anything but FileNotFoundError adds a message *)
(* to status and is not listed; a file not found when opened is listed     *)
(* with found false and no contents and adds no message; in both cases the *)
(* files after it are still examined.                                      *)
(***************************************************************************)
C18_FoundIsOrOfReadFiles ==
    call.fn = "check_release_files" =>
       \A k \in 1..Len(ret) :
          LET files == call.files
              listed == SelectSeq([j \in DOMAIN files |-> j],
                                  LAMBDA j : files[j] # "undecodable")
          IN  /\ ret[k].rhel_found = (\E j \in DOMAIN files : files[j] = "rhel")
              /\ files = <<>> => ~ret[k].rhel_found /\ ret[k].status # <<>>
              /\ files # <<>> =>
                    Len(ret[k].status) =
                       Cardinality({ j \in DOMAIN files : files[j] = "undecodable" })
              /\ Len(ret[k].release_files) = Len(listed)
              /\ \A a \in DOMAIN listed :
                    /\ ret[k].release_files[a].rhel_release_file = listed[a]
                    /\ ret[k].release_files[a].rhel_found = (files[listed[a]] = "rhel")
                    /\ files[listed[a]] = "missing" =>
                          ret[k].release_files[a].rhel_release_file_contents = None

\* an undecodable file came first and the RHEL release file after it was
\* still found
C18_Witness ==
    /\ call.fn = "check_release_files"
    /\ call.files = <<"undecodable", "rhel">>
    /\ Len(ret) > 0
    /\ ret[1].rhel_found
    /\ Len(ret[1].status) = 1

(***************************************************************************)
(* C19: check_repo_files returns every enabled repo with a RHEL brand      *)
(* token in its name once: no entry occurs twice, entries with the same    *)
(* repo id and name from several files or several tokens are one entry,    *)
(* entries with different repo ids stay apart, and deduplicating the       *)
(* returned list again gives the same entries.                             *)
(***************************************************************************)
C19_ReposReportedOnce ==
    call.fn = "check_repo_files" =>
       \A k \in 1..Len(ret) :
          LET sections == UNION { { call.file_paths[f][j] : j \in DOMAIN call.file_paths[f] }
                                  : f \in DOMAIN call.file_paths }
              positive == { sec \in sections :
                              /\ sec.enabled = "1"
                              /\ \E t \in DOMAIN RHEL_REPOS :
                                    InLowerName(RHEL_REPOS[t], sec.name) }
          IN  /\ \A a, b \in DOMAIN ret[k] : a # b => ret[k][a] # ret[k][b]
              /\ Deduplicated(ret[k])
                    = { [repo |-> sec.repo, name |-> sec.name] : sec \in positive }
              /\ ret[k] \in Orders(Deduplicated(ret[k]))

\* more than two matches were collected, and two entries that differ in the
\* repo id only were returned
C19_Witness ==
    /\ call.fn = "check_repo_files"
    /\ Len(CollectedRepos(call.file_paths)) > 2
    /\ Len(ret) > 0
    /\ Len(ret[1]) = 2
    /\ ret[1][1].name = ret[1][2].name
    /\ ret[1][1].repo # ret[1][2].repo

(***************************************************************************)
(* C21: get_partitions picks the candidates from the attributes blkid      *)
(* printed: with a PTTYPE attribute it returns the device nodes that have  *)
(* the drive's path as prefix and end in a digit, and in every other case  *)
(* it returns all device nodes that have the drive's path as prefix, the   *)
(* drive itself included.                                                  *)
(***************************************************************************)
C21_CandidatesFromAttributes ==
    call.fn = "get_partitions" =>
       \A k \in 1..Len(ret) :
          /\ ret[k].raised = None
          /\ { ret[k].value[a] : a \in DOMAIN ret[k].value } =
                IF \E j \in DOMAIN call.blkid_out :
                      SplitOnce(call.blkid_out[j])[1] = "PTTYPE"
                THEN Glob(call.nodes, "*[0-9]")
                ELSE Glob(call.nodes, "*")

C23_FoundIffAllowedCertificate ==
    call.fn = "check_for_rhel_certs" =>
       \A k \in 1..Len(ret) :
          LET allowed == { <<CERT_PATHS[d], name>> :
                              d \in DOMAIN CERT_PATHS,
                              name \in {"69.pem", "479.pem"} }
              present == UNION { { <<CERT_PATHS[d], name>> : name \in call.pems[d] }
                                 : d \in DOMAIN CERT_PATHS }
          IN  /\ ret[k].rhel_found = (allowed \cap present # {})
              /\ Deduplicated(ret[k].rhel_pem_files) = allowed \cap present
              /\ Len(ret[k].rhel_pem_files) = Cardinality(allowed \cap present)

\* 185.pem in etc/pki/product and 69.pem in etc/pki/product-default: found,
\* with the path of 69.pem as the only evidence
C23_Witness ==
    /\ call.fn = "check_for_rhel_certs"
    /\ call.pems[1] = {"185.pem"}
    /\ call.pems[2] = {"69.pem"}
    /\ Len(ret) > 0
    /\ ret[1].rhel_found
    /\ ret[1].rhel_pem_files = <<<<"/etc/pki/product-default/", "69.pem">>>>

(***************************************************************************)
(* C24: the rhel_version of an image changes only in the merge of a        *)
(* partition of that image whose release-file detector found RHEL: a       *)
(* partition on which RHEL was found through certificates, repos or signed *)
(* packages only leaves it as it is, whatever OS version the partition has.*)
(***************************************************************************)
C24_VersionOnlyFromReleaseFiles ==
    [][\A i \in DOMAIN results'.images :
          results'.images[i].rhel_version
             # (IF i \in ImageIds THEN results.images[i].rhel_version ELSE None)
          => /\ MergeStep
             /\ i = image_id
             /\ RecordAt(results', CurrentKey).facts.rhel_release_files.rhel_found]_vars

\* merged: a partition with a product certificate, no RHEL release file and
\* OS version 8.1, into an image whose rhel_version stays 7.4
C24_Witness ==
    /\ pc = "close"
    /\ RecordAt(results, CurrentKey).facts.rhel_product_certs.rhel_found
    /\ ~RecordAt(results, CurrentKey).facts.rhel_release_files.rhel_found
    /\ RecordAt(results, CurrentKey).facts.os_version = "8.1"
    /\ results.images[image_id].rhel_version = "7.4"

(***************************************************************************)
(* C25: when a discovered partition has the file system type LVM2_member   *)
(* or a file system version containing LVM2, the list to inspect is the    *)
(* other partitions in their discovered order followed by the logical      *)
(* volumes, no such partition is in it, and vgscan --mknodes has been run  *)
(* when the list is handed to the loop that mounts; otherwise the list is  *)
(* the discovered one.                                                     *)
(***************************************************************************)
C25_LvmMembersReplaced ==
    call.fn = "mount_and_inspect" =>
       \A k \in 1..Len(ret) :
          LET info == call.partition_info
              member(j) ==
                 \/ "ID_FS_TYPE" \in DOMAIN info[j] /\ info[j]["ID_FS_TYPE"] = "LVM2_member"
                 \/ "ID_FS_VERSION" \in DOMAIN info[j]
                       /\ info[j]["ID_FS_VERSION"] = "LVM2 001"
              others == SelectSeq([j \in DOMAIN info |-> j], LAMBDA j : ~member(j))
          IN  IF \E j \in DOMAIN info : member(j)
              THEN /\ ret[k].partitions =
                         [a \in DOMAIN others |-> call.partitions[others[a]]] \o LvPaths
                   /\ \A j \in DOMAIN info : member(j) =>
                         \A a \in DOMAIN ret[k].partitions :
                            ret[k].partitions[a] # call.partitions[j]
                   /\ \E c \in DOMAIN ret[k].commands :
                         ret[k].commands[c] = "vgscan --mknodes"
              ELSE /\ ret[k].partitions = call.partitions
                   /\ ret[k].commands = <<>>

\* the second of two partitions is an LVM member by its version only: the
\* first partition and the logical volume are inspected
C25_Witness ==
    /\ call.fn = "mount_and_inspect"
    /\ Len(call.partitions) = 2
    /\ call.partition_info[1] = ("ID_FS_TYPE" :> "xfs")
    /\ call.partition_info[2] = ("ID_FS_VERSION" :> "LVM2 001")
    /\ Len(ret) > 0
    /\ ret[1].partitions = <<call.partitions[1]>> \o LvPaths

(***************************************************************************)
(* C26: when the package database has content, the package detector sets   *)
(* found true if and only if the query counts at least one package; when   *)
(* the query's subprocess fails, the detector writes the error, found      *)
(* false and count 0 into its sub-record, nothing is added to the error    *)
(* lists, the OS version and the system purpose are read and the findings  *)
(* are merged.                                                             *)
(***************************************************************************)
C26_QueryFailureStaysInSubRecord ==
    call.fn = "check_partition" =>
       \A k \in 1..Len(ret) :
          /\ call.volume.rpm \in {"0", "3"} =>
                /\ ret[k].rhel_signed_packages["rhel_found"] = (call.volume.rpm = "3")
                /\ ret[k].rhel_signed_packages["rhel_signed_package_count"]
                      = (IF call.volume.rpm = "3" THEN 3 ELSE 0)
                /\ ret[k].facts.rhel_signed_packages.rhel_found = (call.volume.rpm = "3")
          /\ call.volume.rpm = "fail" =>
                /\ ret[k].raised = None
                /\ "error" \in DOMAIN ret[k].rhel_signed_packages
                /\ ret[k].rhel_signed_packages["rhel_found"] = FALSE
                /\ ret[k].rhel_signed_packages["rhel_signed_package_count"] = 0
                /\ ret[k].facts.rhel_signed_packages = Filled(FALSE)
                /\ ret[k].errors = <<>>
                /\ ret[k].image.errors = call.image.errors
                /\ \E a, b, c, d \in DOMAIN ret[k].trace :
                      /\ a < b /\ b < c /\ c < d
                      /\ ret[k].trace[a] = "check_for_signed_packages"
                      /\ ret[k].trace[b] = "get_os_version"
                      /\ ret[k].trace[c] = "get_syspurpose"
                      /\ ret[k].trace[d] = "merge"
                /\ ret[k].facts.os_version = call.volume.os_version
                /\ ret[k].facts.syspurpose_contents = call.volume.syspurpose
                /\ ret[k].image.rhel_release_files_found =
                      (call.image.rhel_release_files_found
                         \/ call.volume.release = "rhel")

\* the body ran on a volume with a RHEL release file whose package query
\* failed, and RHEL was merged into an image that had nothing found
C26_Witness ==
    /\ call.fn = "check_partition"
    /\ call.volume.rpm = "fail"
    /\ ~call.image.rhel_found
    /\ Len(ret) > 0
    /\ "error" \in DOMAIN ret[1].rhel_signed_packages
    /\ ret[1].image.rhel_found

UmountFailsStep == pc = "close" /\ results'.errors # results.errors

C28_UmountFailureKeepsFindings ==
    [][UmountFailsStep =>
         LET before == RecordAt(results, CurrentKey)
             after == RecordAt(results', CurrentKey)
             image == results'.images[image_id]
         IN  /\ DOMAIN results'.images = ImageIds
             /\ \A i \in ImageIds :
                  Verdict(results'.images[i]) = Verdict(results.images[i])
             /\ before.facts.os_version # Absent
             /\ after.facts = before.facts
             /\ after.error # Absent
             /\ before.facts.rhel_release_files.rhel_found
                   => image.rhel_release_files_found
             /\ before.facts.rhel_product_certs.rhel_found
                   => image.rhel_product_certs_found
             /\ before.facts.rhel_enabled_repos.rhel_found
                   => image.rhel_enabled_repos_found
             /\ before.facts.rhel_signed_packages.rhel_found
                   => image.rhel_signed_packages_found
             /\ PartitionRhelFound(before.facts) => image.rhel_found
             /\ Len(results'.errors) = Len(results.errors) + 1
             /\ SubSeq(results'.errors, 1, Len(results.errors)) = results.errors
             /\ image.errors = Append(results.images[image_id].errors,
                                      results'.errors[Len(results'.errors)])
             /\ targets' = targets
             /\ IF pi < Len(partitions)
                THEN pc' = "check_partition" /\ ti' = ti /\ pi' = pi + 1
                     /\ partitions' = partitions
                ELSE pc' = "main" /\ ti' = ti + 1]_vars

\* the umount of the first partition failed after RHEL was found on it, and
\* the second partition of the drive is up
C28_Witness ==
    /\ pc = "check_partition"
    /\ pi = 2
    /\ calls["umount"] > 0
    /\ RecordAt(results, <<image_id, drive, partitions[1]>>).error # Absent
    /\ PartitionRhelFound(RecordAt(results, <<image_id, drive, partitions[1]>>).facts)
    /\ results.images[image_id].rhel_found
    /\ results.errors # <<>>

(***************************************************************************)
(* C29: the verdict of an image only grows: in every step each of the five *)
(* flags that is true stays true, and rhel_version and syspurpose, once    *)
(* set, stay set, whatever partition, target, failing mount or missing     *)
(* device path the step handles.                                           *)
(***************************************************************************)
C29_VerdictIsMonotone ==
    [][\A i \in ImageIds :
         /\ i \in DOMAIN results'.images
         /\ results.images[i].rhel_found => results'.images[i].rhel_found
         /\ results.images[i].rhel_release_files_found
               => results'.images[i].rhel_release_files_found
         /\ results.images[i].rhel_product_certs_found
               => results'.images[i].rhel_product_certs_found
         /\ results.images[i].rhel_enabled_repos_found
               => results'.images[i].rhel_enabled_repos_found
         /\ results.images[i].rhel_signed_packages_found
               => results'.images[i].rhel_signed_packages_found
         /\ results.images[i].rhel_version # None
               => results'.images[i].rhel_version # None
         /\ results.images[i].syspurpose # None
               => results'.images[i].syspurpose # None]_vars

\* RHEL, a version and a system purpose were found on the first partition,
\* and the detectors found nothing on the second one
C29_Witness ==
    /\ pc = "close"
    /\ pi = 2
    /\ RecordAt(results, CurrentKey).facts.rhel_release_files.filled
    /\ ~PartitionRhelFound(RecordAt(results, CurrentKey).facts)
    /\ results.images[image_id].rhel_found
    /\ results.images[image_id].rhel_release_files_found
    /\ results.images[image_id].rhel_version # None
    /\ results.images[image_id].syspurpose # None

(***************************************************************************)
(* C30: the result tree records every attempt.  Every target that          *)
(* mount_and_inspect was called for has an entry for its drive under its   *)
(* image id, which holds no record as long as no mount was issued (missing *)
(* device path, no partition found); every partition of the current target *)
(* for which a mount was issued has a record under the drive; and a record *)
(* whose mount failed has an error and empty detector sub-records.         *)
(***************************************************************************)
C30_EveryAttemptRecorded ==
    (pc \in {"main", "check_partition", "inspect", "close", "crashed", "done"}) =>
       /\ \A t \in 1..Len(targets) :
            (t < ti \/ (t = ti /\ pc \notin {"main", "done"})) =>
               /\ targets[t][1] \in ImageIds
               /\ targets[t][2] \in DOMAIN results.images[targets[t][1]].drives
               /\ calls["mount"] = 0 =>
                     results.images[targets[t][1]].drives[targets[t][2]] = EmptyMap
       /\ pc \in {"check_partition", "inspect", "close"} =>
             \A j \in 1..Len(partitions) :
                (j < pi \/ (j = pi /\ pc # "check_partition")) =>
                   <<image_id, drive, partitions[j]>> \in RecordKeys(results)
       /\ \A key \in RecordKeys(results) :
             (RecordAt(results, key).facts.os_version = Absent
                /\ ~(pc \in {"inspect", "crashed"} /\ pi > 0 /\ key = CurrentKey)) =>
                /\ RecordAt(results, key).error # Absent
                /\ RecordAt(results, key).facts = NewPartitionResult.facts

\* the first target's device path was missing, the mount of the first
\* partition of the second target failed and its second partition is up
C30_Witness ==
    /\ pc = "check_partition"
    /\ ti = 2
    /\ pi = 2
    /\ calls["mount"] = 1
    /\ calls["mount_ok"] = 0
    /\ targets[1] # targets[2]
    /\ results.images[targets[1][1]].drives[targets[1][2]] = EmptyMap
    /\ RecordAt(results, <<image_id, drive, partitions[1]>>).error # Absent
    /\ RecordAt(results, <<image_id, drive, partitions[1]>>).facts
          = NewPartitionResult.facts
====
